---- MODULE Spec2Model ----
(***************************************************************************)
(* Model of src/app/model.py: the OrderLine value object, the Batch entity *)
(* and the allocate(line, batches) domain service.                         *)
(*                                                                         *)
(* A Batch object is a record; the objects live in `heap`, indexed by an   *)
(* object identity (BatchIds).  An Optional[date] is a sequence: <<>> is   *)
(* None and <<d>> is the date d.  Every operation is an operator returning *)
(* the new object or heap together with the value returned and the         *)
(* exception raised; the actions apply these operators to the heap.        *)
(***************************************************************************)
EXTENDS Integers, Sequences, FiniteSets

\* ---------------------------------------------------------------- bounds
MaxQty == 2          \* line quantities are 1..MaxQty
MaxPurchased == 2    \* purchased quantities are 0..MaxPurchased
MaxEta == 2          \* dates are 1..MaxEta

\* identities of the Batch objects of the allocation runs, and of the
\* comparison runs
BatchIds == {1, 2}
OrderBatchIds == {1, 2, 3}
OrderIds == {"o1", "o2"}
Skus == {"RED-CHAIR", "BLUE-LAMP"}
References == {"ref-a", "ref-b"}
\* the reference each object of the allocation runs is constructed with
BatchRefs == <<"in-stock", "future">>

None == <<>>
Dates == {<<d>> : d \in 1..MaxEta}
Etas == {None} \cup Dates

\* OrderLine(orderid, sku, qty): a frozen dataclass, equal by its fields
OrderLine == [orderid : OrderIds, sku : Skus, qty : 1..MaxQty]

\* heap: the Batch objects; last: the call made last; calls: the
\* Batch.allocate calls that concurrent callers have in progress
VARIABLES heap, last, calls
vars == <<heap, last, calls>>

\* ------------------------------------------------------------ Batch
\* Batch.__init__
Batch(ref, sku, qty, eta) ==
    [reference |-> ref, sku |-> sku, eta |-> eta,
     purchased_quantity |-> qty, allocations |-> {}]

RECURSIVE SumQty(_)
\* sum(x.qty for x in ...)
SumQty(S) ==
    IF S = {} THEN 0
    ELSE LET x == CHOOSE y \in S : TRUE IN x.qty + SumQty(S \ {x})

allocated_quantity(self) == SumQty(self.allocations)

available_quantity(self) == self.purchased_quantity - allocated_quantity(self)

\* mutants of can_allocate: the quantity check left out; > written for >=
can_allocate_sku_only(self, line) == self.sku = line.sku

can_allocate_strict(self, line) ==
    self.sku = line.sku /\ available_quantity(self) > line.qty

can_allocate(self, line) ==
    self.sku = line.sku /\ available_quantity(self) >= line.qty

\* mutant of OrderLine.__eq__: qty declared with compare=False
OrderLine_eq_no_qty(a, b) == <<a.orderid, a.sku>> = <<b.orderid, b.sku>>

\* OrderLine.__eq__ (and __hash__) as @dataclass(frozen=True) generates them:
\* the tuples of the fields are compared
OrderLine_eq(a, b) == <<a.orderid, a.sku, a.qty>> = <<b.orderid, b.sku, b.qty>>

\* x in s, for a set of OrderLines: some element equals x
SetContains(s, x) == \E y \in s : OrderLine_eq(y, x)

\* set.add: no exception, a no-op when an equal element is present
SetAdd(s, x) == IF SetContains(s, x) THEN s ELSE s \cup {x}

\* set.remove: KeyError when no equal element is present
SetRemove(s, x) ==
    IF SetContains(s, x)
    THEN [set |-> {y \in s : ~OrderLine_eq(y, x)}, exc |-> "none"]
    ELSE [set |-> s, exc |-> "KeyError"]

\* mutant of Batch.allocate: no allocation set, every accepted call takes
\* line.qty off the quantity the batch has (self.available_quantity -= qty)
Batch_allocate_counter(self, line) ==
    IF can_allocate(self, line)
    THEN [batch |-> [self EXCEPT !.purchased_quantity = @ - line.qty],
          exc |-> "none"]
    ELSE [batch |-> self, exc |-> "none"]

\* mutant of Batch.allocate: the can_allocate test left out
Batch_allocate_unguarded(self, line) ==
    [batch |-> [self EXCEPT !.allocations = SetAdd(@, line)], exc |-> "none"]

\* Batch.allocate(line): the batch afterwards and the exception raised
Batch_allocate(self, line) ==
    IF can_allocate(self, line)
    THEN [batch |-> [self EXCEPT !.allocations = SetAdd(@, line)], exc |-> "none"]
    ELSE [batch |-> self, exc |-> "none"]

\* mutant of Batch.deallocate: the membership test left out
Batch_deallocate_unguarded(self, line) ==
    LET r == SetRemove(self.allocations, line)
    IN [batch |-> [self EXCEPT !.allocations = r.set], exc |-> r.exc]

\* Batch.deallocate(line): the batch afterwards and the exception raised
Batch_deallocate(self, line) ==
    IF SetContains(self.allocations, line)
    THEN LET r == SetRemove(self.allocations, line)
         IN [batch |-> [self EXCEPT !.allocations = r.set], exc |-> r.exc]
    ELSE [batch |-> self, exc |-> "none"]

\* isinstance(other, Batch): an OrderLine has no reference
IsBatch(x) == "reference" \in DOMAIN x

\* hash() of a str: one value per string for the life of the process
StrHash(s) ==
    CASE s = "ref-a" -> 11
      [] s = "ref-b" -> 23
      [] s = "in-stock" -> 37
      [] s = "future" -> 41
      [] s = "RED-CHAIR" -> 53
      [] s = "BLUE-LAMP" -> 67

\* mutant of Batch.__eq__: the field-by-field equality a dataclass generates
Batch_eq_fields(self, other) ==
    IF ~IsBatch(other) THEN FALSE
    ELSE self = other

\* Batch.__eq__
Batch_eq(self, other) ==
    IF ~IsBatch(other) THEN FALSE
    ELSE other.reference = self.reference

\* Batch.__hash__
Batch_hash(self) == StrHash(self.reference)

\* mutants of Batch.__gt__: the later eta ranked first; >= written for >
Batch_gt_reversed(self, other) ==
    IF self.eta = None THEN FALSE
    ELSE IF other.eta = None THEN TRUE
    ELSE self.eta[1] < other.eta[1]

Batch_gt_or_equal(self, other) ==
    IF self.eta = None THEN FALSE
    ELSE IF other.eta = None THEN TRUE
    ELSE self.eta[1] >= other.eta[1]

\* Batch.__gt__
Batch_gt(self, other) ==
    IF self.eta = None THEN FALSE
    ELSE IF other.eta = None THEN TRUE
    ELSE self.eta[1] > other.eta[1]

\* mutant of the comparison sorted() makes: a < b taken as not a > b, which
\* is true of two batches of equal rank
Batch_lt_not_gt(a, b) == ~Batch_gt(a, b)

\* a < b on two Batches: Batch has no __lt__, so Python evaluates the
\* reflected b.__gt__(a)
Batch_lt(a, b) == Batch_gt(b, a)

\* ------------------------------------------------------------ allocate
RECURSIVE Insert(_, _, _)
\* one step of the stable insertion sort of list.sort: x goes after every
\* element it is not less than
Insert(s, x, h) ==
    IF s = <<>> THEN <<x>>
    ELSE IF Batch_lt(h[x], h[s[Len(s)]])
         THEN Append(Insert(SubSeq(s, 1, Len(s) - 1), x, h), s[Len(s)])
         ELSE Append(s, x)

RECURSIVE sorted(_, _)
\* sorted(batches): a new list, the argument is left as it is
sorted(bs, h) ==
    IF bs = <<>> THEN <<>>
    ELSE Insert(sorted(SubSeq(bs, 1, Len(bs) - 1), h), bs[Len(bs)], h)

RECURSIVE FirstEligible(_, _, _)
\* next(b for b in ... if b.can_allocate(line)): 0 stands for StopIteration
FirstEligible(s, line, h) ==
    IF s = <<>> THEN 0
    ELSE IF can_allocate(h[s[1]], line) THEN s[1]
    ELSE FirstEligible(Tail(s), line, h)

\* mutants of allocate: StopIteration swallowed, None returned; the caller's
\* list sorted in place (batches.sort())
allocate_no_raise(line, batches, h) ==
    LET batch == FirstEligible(sorted(batches, h), line, h)
    IN IF batch = 0
       THEN [heap |-> h, batches |-> batches, ret |-> "None", exc |-> "none"]
       ELSE LET r == Batch_allocate(h[batch], line)
            IN [heap |-> [h EXCEPT ![batch] = r.batch], batches |-> batches,
                ret |-> h[batch].reference, exc |-> r.exc]

allocate_sort_in_place(line, batches, h) ==
    LET batch == FirstEligible(sorted(batches, h), line, h)
    IN IF batch = 0
       THEN [heap |-> h, batches |-> sorted(batches, h), ret |-> "None",
             exc |-> "OutOfStock"]
       ELSE LET r == Batch_allocate(h[batch], line)
            IN [heap |-> [h EXCEPT ![batch] = r.batch],
                batches |-> sorted(batches, h),
                ret |-> h[batch].reference, exc |-> r.exc]

\* allocate(line, batches): the heap and the caller's list afterwards, the
\* value returned and the exception raised
allocate(line, batches, h) ==
    LET batch == FirstEligible(sorted(batches, h), line, h)
    IN IF batch = 0
       THEN [heap |-> h, batches |-> batches, ret |-> "None", exc |-> "OutOfStock"]
       ELSE LET r == Batch_allocate(h[batch], line)
            IN [heap |-> [h EXCEPT ![batch] = r.batch], batches |-> batches,
                ret |-> h[batch].reference, exc |-> r.exc]

\* ------------------------------------------------------------ state machine
RECURSIVE Lists(_)
\* the lists of distinct Batch objects a caller can pass, in every order
Lists(S) ==
    IF S = {} THEN {<<>>}
    ELSE UNION {{<<>>} \cup {<<b>> \o l : l \in Lists(S \ {b})} : b \in S}

BatchLists == Lists(BatchIds)

\* `last` is the call that was made last: its name, the value it returned
\* and the exception it raised.
NoCall == [op |-> "init", ret |-> "None", exc |-> "none"]

\* no concurrent callers
NoCalls == [atomic |-> TRUE, caller |-> <<>>]

\* two Batch objects, each constructed with its own reference and any sku,
\* quantity and eta; nothing allocated yet
Init ==
    /\ heap \in {[b \in BatchIds |-> Batch(BatchRefs[b], s[b], q[b], e[b])] :
                    s \in [BatchIds -> Skus], q \in [BatchIds -> 0..MaxPurchased],
                    e \in [BatchIds -> Etas]}
    /\ last = NoCall
    /\ calls = NoCalls

DoBatchAllocate(b, line) ==
    LET r == Batch_allocate(heap[b], line)
    IN /\ heap' = [heap EXCEPT ![b] = r.batch]
       /\ last' = [op |-> "Batch.allocate", ret |-> "None", exc |-> r.exc]
       /\ UNCHANGED calls

DoBatchDeallocate(b, line) ==
    LET r == Batch_deallocate(heap[b], line)
    IN /\ heap' = [heap EXCEPT ![b] = r.batch]
       /\ last' = [op |-> "Batch.deallocate", ret |-> "None", exc |-> r.exc]
       /\ UNCHANGED calls

DoCanAllocate(b, line) ==
    /\ last' = [op |-> "Batch.can_allocate",
                ret |-> IF can_allocate(heap[b], line) THEN "True" ELSE "False",
                exc |-> "none"]
    /\ UNCHANGED <<heap, calls>>

DoAllocate(line, batches) ==
    LET r == allocate(line, batches, heap)
    IN /\ heap' = r.heap
       /\ last' = [op |-> "allocate", ret |-> r.ret, exc |-> r.exc]
       /\ UNCHANGED calls

\* The caller works on the Batch objects directly.
Next ==
    \/ \E b \in BatchIds, line \in OrderLine : DoBatchAllocate(b, line)
    \/ \E b \in BatchIds, line \in OrderLine : DoBatchDeallocate(b, line)
    \/ \E b \in BatchIds, line \in OrderLine : DoCanAllocate(b, line)

Spec == Init /\ [][Next]_vars

\* The caller reaches the batches through the allocate(line, batches)
\* service only.
NextService ==
    \E line \in OrderLine, batches \in BatchLists : DoAllocate(line, batches)

SpecService == Init /\ [][NextService]_vars

\* Three Batch objects constructed with any reference, sku, quantity and eta;
\* the only operation is the comparison a > b.
InitOrder ==
    /\ heap \in [OrderBatchIds -> {Batch(r, s, q, e) :
                    r \in References, s \in Skus, q \in {0, MaxPurchased}, e \in Etas}]
    /\ last = NoCall
    /\ calls = NoCalls

DoGt(a, b) ==
    /\ last' = [op |-> "Batch.__gt__",
                ret |-> IF Batch_gt(heap[a], heap[b]) THEN "True" ELSE "False",
                exc |-> "none"]
    /\ UNCHANGED <<heap, calls>>

NextOrder == \E a \in OrderBatchIds, b \in OrderBatchIds : DoGt(a, b)

SpecOrder == InitOrder /\ [][NextOrder]_vars

\* Two Batch objects constructed with any reference (the same one included),
\* sku and quantity, with no eta or the last date; the caller allocates and
\* deallocates lines and compares and hashes the batches.
IdentityEtas == {None, <<MaxEta>>}

InitIdentity ==
    /\ heap \in [BatchIds -> {Batch(r, s, q, e) :
                    r \in References, s \in Skus, q \in 0..MaxPurchased,
                    e \in IdentityEtas}]
    /\ last = NoCall
    /\ calls = NoCalls

DoEq(a, b) ==
    /\ last' = [op |-> "Batch.__eq__",
                ret |-> IF Batch_eq(heap[a], heap[b]) THEN "True" ELSE "False",
                exc |-> "none"]
    /\ UNCHANGED <<heap, calls>>

DoHash(a) ==
    /\ last' = [op |-> "Batch.__hash__", ret |-> Batch_hash(heap[a]),
                exc |-> "none"]
    /\ UNCHANGED <<heap, calls>>

NextIdentity ==
    \/ \E b \in BatchIds, line \in OrderLine : DoBatchAllocate(b, line)
    \/ \E b \in BatchIds, line \in OrderLine : DoBatchDeallocate(b, line)
    \/ \E a \in BatchIds, b \in BatchIds : DoEq(a, b)
    \/ \E a \in BatchIds : DoHash(a)

SpecIdentity == InitIdentity /\ [][NextIdentity]_vars

\* One Batch object, of any sku and eta, large enough to take two lines of
\* any quantities; the caller allocates and deallocates lines.
LinesBatchIds == {1}

InitLines ==
    /\ heap \in [LinesBatchIds -> {Batch(BatchRefs[1], s, q, e) :
                    s \in Skus, q \in 0..(MaxPurchased + MaxQty), e \in Etas}]
    /\ last = NoCall
    /\ calls = NoCalls

NextLines ==
    \/ \E b \in LinesBatchIds, line \in OrderLine : DoBatchAllocate(b, line)
    \/ \E b \in LinesBatchIds, line \in OrderLine : DoBatchDeallocate(b, line)

SpecLines == InitLines /\ [][NextLines]_vars

\* Two Batch objects of equal rank: both constructed with the same eta (or
\* both with none), each with any sku and quantity; the caller reaches them
\* through the allocate(line, batches) service only.
InitTies ==
    /\ heap \in {[b \in BatchIds |-> Batch(BatchRefs[b], s[b], q[b], e)] :
                    s \in [BatchIds -> Skus], q \in [BatchIds -> 0..MaxPurchased],
                    e \in Etas}
    /\ last = NoCall
    /\ calls = NoCalls

SpecTies == InitTies /\ [][NextService]_vars

\* Two callers each call Batch.allocate once, with distinct lines, on the
\* same Batch object.  When `atomic` is false nothing serializes the calls:
\* the can_allocate test (line 85) and the set.add (line 86) of a call are
\* two steps, and the steps of the two calls interleave in any order.  When
\* `atomic` is true an external lock makes each call one step.
\* For each caller: pc is where its call stands, ok is what its can_allocate
\* test returned, and raced records that the other caller's line was added
\* between its test and its own add.
Callers == {1, 2}

InitConcurrent ==
    /\ heap \in [LinesBatchIds -> {Batch(BatchRefs[1], s, q, None) :
                    s \in Skus, q \in 0..MaxPurchased}]
    /\ last = NoCall
    /\ calls \in {[atomic |-> a,
                   caller |-> [c \in Callers |->
                       [pc |-> "start", line |-> l[c], ok |-> FALSE,
                        raced |-> FALSE]]] :
                    a \in BOOLEAN,
                    l \in {f \in [Callers -> OrderLine] : f[1] # f[2]}}

\* line 85: the caller evaluates self.can_allocate(line)
CallerCheck(c, b) ==
    /\ ~calls.atomic
    /\ calls.caller[c].pc = "start"
    /\ calls' = [calls EXCEPT !.caller[c].pc = "checked",
                              !.caller[c].ok = can_allocate(heap[b], calls.caller[c].line)]
    /\ UNCHANGED <<heap, last>>

\* line 86: the caller adds its line if its test passed, and returns
CallerAdd(c, b) ==
    /\ ~calls.atomic
    /\ calls.caller[c].pc = "checked"
    /\ heap' = IF calls.caller[c].ok
               THEN [heap EXCEPT ![b].allocations = SetAdd(@, calls.caller[c].line)]
               ELSE heap
    /\ calls' = [calls EXCEPT !.caller =
                    [d \in Callers |->
                        IF d = c THEN [@[d] EXCEPT !.pc = "done"]
                        ELSE IF @[d].pc = "checked" /\ calls.caller[c].ok
                             THEN [@[d] EXCEPT !.raced = TRUE]
                             ELSE @[d]]]
    /\ last' = [op |-> "Batch.allocate", ret |-> "None", exc |-> "none"]

\* lines 84-86 under the lock: the whole call is one step
LockedCall(c, b) ==
    /\ calls.atomic
    /\ calls.caller[c].pc = "start"
    /\ LET r == Batch_allocate(heap[b], calls.caller[c].line)
       IN /\ heap' = [heap EXCEPT ![b] = r.batch]
          /\ last' = [op |-> "Batch.allocate", ret |-> "None", exc |-> r.exc]
    /\ calls' = [calls EXCEPT !.caller[c].pc = "done",
                              !.caller[c].ok = can_allocate(heap[b], calls.caller[c].line)]

NextConcurrent ==
    \/ \E c \in Callers, b \in LinesBatchIds : CallerCheck(c, b)
    \/ \E c \in Callers, b \in LinesBatchIds : CallerAdd(c, b)
    \/ \E c \in Callers, b \in LinesBatchIds : LockedCall(c, b)

SpecConcurrent == InitConcurrent /\ [][NextConcurrent]_vars

\* ------------------------------------------------------------ properties
\* The statements below are written from the fields of the objects, not
\* from the operators above, so that they say what the operators compute.
Range(s) == {s[i] : i \in 1..Len(s)}

\* the quantity still free in a batch: purchased less the allocated lines
Free(b) == b.purchased_quantity - SumQty(b.allocations)

\* the line fits the batch
Fits(b, line) == b.sku = line.sku /\ Free(b) >= line.qty

\* the rank of a batch: no eta first, then the dates in ascending order
Rank(b) == IF b.eta = None THEN 0 ELSE b.eta[1]

\* the batches holding the line
Holders(line) == {b \in DOMAIN heap : line \in heap[b].allocations}

\* C1: in every state reached by Batch.allocate and Batch.deallocate calls
\* (and service calls), every batch has
\* 0 <= allocated_quantity <= purchased_quantity, so available_quantity >= 0.
C1_QuantityInvariant ==
    \A b \in DOMAIN heap :
        /\ 0 <= allocated_quantity(heap[b])
        /\ allocated_quantity(heap[b]) <= heap[b].purchased_quantity
        /\ available_quantity(heap[b]) >= 0

\* a batch filled to its purchased quantity by two lines, after a
\* Batch.allocate that changed it
C1_Witness ==
    /\ last.op = "Batch.allocate"
    /\ \E b \in DOMAIN heap :
        /\ Cardinality(heap[b].allocations) = 2
        /\ allocated_quantity(heap[b]) = heap[b].purchased_quantity

\* C2: in every reachable state, for every line and every list of batches in
\* any order, a successful allocate(line, batches) puts the line into, and
\* returns the reference of, a batch of the list that the line fits and that
\* no other fitting batch of the list outranks (no eta first, then the
\* earliest eta).
C2_PrefersInStockThenEarliest ==
    \A line \in OrderLine, batches \in BatchLists :
        LET r == allocate(line, batches, heap)
            fitting == {b \in Range(batches) : Fits(heap[b], line)}
        IN r.exc = "none" =>
            \E c \in fitting :
                /\ \A e \in fitting : Rank(heap[c]) <= Rank(heap[e])
                /\ line \in r.heap[c].allocations
                /\ r.ret = heap[c].reference
                /\ \A o \in DOMAIN heap \ {c} : r.heap[o] = heap[o]

\* the service has just put a line into the in-stock batch although the
\* dated batch has room for it as well
C2_Witness ==
    /\ last.op = "allocate" /\ last.exc = "none"
    /\ \E c \in DOMAIN heap, d \in DOMAIN heap :
        /\ heap[c].eta = None /\ heap[d].eta # None
        /\ last.ret = heap[c].reference
        /\ \E line \in heap[c].allocations : Fits(heap[d], line)

\* C3: in every reachable state, for every line and every list of batches
\* (the empty list included), allocate(line, batches) raises OutOfStock
\* exactly when the line fits no batch of the list, and then no batch
\* changes.
C3_OutOfStockIffNoneFits ==
    \A line \in OrderLine, batches \in BatchLists :
        LET r == allocate(line, batches, heap)
            fitting == {b \in Range(batches) : Fits(heap[b], line)}
        IN /\ r.exc \in {"none", "OutOfStock"}
           /\ (r.exc = "OutOfStock") <=> (fitting = {})
           /\ r.exc = "OutOfStock" => r.heap = heap /\ r.ret = "None"

\* OutOfStock was just raised although a batch has the sku of a line too
\* large for what is left in it
C3_Witness ==
    /\ last.op = "allocate" /\ last.exc = "OutOfStock"
    /\ \E b \in DOMAIN heap, line \in OrderLine :
        /\ heap[b].sku = line.sku /\ heap[b].allocations # {}
        /\ \A o \in DOMAIN heap : ~Fits(heap[o], line)

\* C4: after any sequence of allocate(line, batches) service calls, starting
\* from empty allocation sets, every OrderLine is in the allocation set of at
\* most one batch.
C4_LineInAtMostOneBatch ==
    \A line \in OrderLine : Cardinality(Holders(line)) <= 1

\* C5 as stated: in every reachable state, for every batch and every line,
\* available_quantity is the same before Batch.allocate(line) and after
\* Batch.allocate(line) followed by Batch.deallocate(line).
C5_RoundTripAnyLine ==
    \A b \in DOMAIN heap, line \in OrderLine :
        LET a == Batch_allocate(heap[b], line).batch
            d == Batch_deallocate(a, line).batch
        IN available_quantity(d) = available_quantity(heap[b])

\* C5 amended: in every reachable state, for every batch and every line that
\* is not in the batch's allocation set, Batch.allocate(line) followed by
\* Batch.deallocate(line) leaves the batch as it was, with the same
\* available_quantity.
C5_RoundTripNewLine ==
    \A b \in DOMAIN heap, line \in OrderLine :
        LET a == Batch_allocate(heap[b], line).batch
            d == Batch_deallocate(a, line).batch
        IN line \notin heap[b].allocations =>
            /\ Free(d) = Free(heap[b])
            /\ available_quantity(d) = available_quantity(heap[b])
            /\ d = heap[b]

\* after a Batch.deallocate, a batch holds a line and has room for another
\* line that it does not hold
C5_Witness ==
    /\ last.op = "Batch.deallocate"
    /\ \E b \in DOMAIN heap, line \in OrderLine :
        /\ line \notin heap[b].allocations
        /\ heap[b].allocations # {}
        /\ Fits(heap[b], line)

\* C6: in every reachable state, for every batch and every line, calling
\* Batch.allocate(line) twice leaves the batch as calling it once does: the
\* same allocation set and the same allocated_quantity, also when the first
\* call leaves no room for the line.
C6_AllocateIdempotent ==
    \A b \in DOMAIN heap, line \in OrderLine :
        LET once == Batch_allocate(heap[b], line).batch
            twice == Batch_allocate(once, line).batch
        IN /\ twice.allocations = once.allocations
           /\ SumQty(twice.allocations) = SumQty(once.allocations)
           /\ allocated_quantity(twice) = allocated_quantity(once)
           /\ available_quantity(twice) = available_quantity(once)
           /\ twice = once

\* after a Batch.allocate, a batch holds a line and has no room left for
\* that line, so that a second call finds can_allocate false
C6_Witness ==
    /\ last.op = "Batch.allocate"
    /\ \E b \in DOMAIN heap :
        \E line \in heap[b].allocations :
            /\ ~Fits(heap[b], line)
            /\ Batch_allocate(heap[b], line).batch = heap[b]

\* C7: in every reachable state, for every list of batches and every line
\* that no batch holds, a successful allocate(line, batches) adds the line
\* to one batch of the list, whose available_quantity drops by line.qty,
\* leaves every other batch as it was and leaves the caller's list as it
\* was.
C7_FrameOfAllocate ==
    \A line \in OrderLine, batches \in BatchLists :
        LET r == allocate(line, batches, heap)
        IN (Holders(line) = {} /\ r.exc = "none") =>
            /\ r.batches = batches
            /\ \E c \in Range(batches) :
                /\ r.heap[c] = [heap[c] EXCEPT !.allocations = @ \cup {line}]
                /\ Free(r.heap[c]) = Free(heap[c]) - line.qty
                /\ available_quantity(r.heap[c])
                       = available_quantity(heap[c]) - line.qty
                /\ \A o \in DOMAIN heap \ {c} : r.heap[o] = heap[o]

\* the service has just put a line into one batch while the other batch,
\* of the same sku and ranked before it, holds nothing
C7_Witness ==
    /\ last.op = "allocate" /\ last.exc = "none"
    /\ \E c \in DOMAIN heap, o \in DOMAIN heap :
        /\ c # o /\ heap[c].sku = heap[o].sku
        /\ Rank(heap[o]) < Rank(heap[c])
        /\ last.ret = heap[c].reference
        /\ Cardinality(heap[c].allocations) = 1
        /\ heap[o].allocations = {}

\* C8: in every reachable state, Batch.allocate and Batch.deallocate raise
\* nothing for any line; Batch.allocate of a line that does not fit and
\* Batch.deallocate of a line that is not allocated leave the batch as it
\* was; and no call but the allocate service has raised OutOfStock.
C8_BatchMethodsNeverFail ==
    /\ \A b \in DOMAIN heap, line \in OrderLine :
        LET a == Batch_allocate(heap[b], line)
            d == Batch_deallocate(heap[b], line)
        IN /\ a.exc = "none"
           /\ d.exc = "none"
           /\ ~Fits(heap[b], line) => a.batch = heap[b]
           /\ line \notin heap[b].allocations => d.batch = heap[b]
    /\ last.exc # "none" => last.op = "allocate" /\ last.exc = "OutOfStock"
    /\ last.op \in {"Batch.allocate", "Batch.deallocate"} => last.exc = "none"

\* a Batch.deallocate has just returned and every batch holds two lines that
\* fill the largest purchased quantity: no batch can have held a third line,
\* so the call removed nothing, and no line fits any batch now
C8_Witness ==
    /\ last.op = "Batch.deallocate" /\ last.exc = "none"
    /\ \A b \in DOMAIN heap :
        /\ heap[b].purchased_quantity = MaxPurchased
        /\ Cardinality(heap[b].allocations) = MaxPurchased
        /\ \A line \in OrderLine : ~Fits(heap[b], line)

\* C9: in every reachable state, for every batch and every line,
\* can_allocate(line) is true iff the skus are equal and
\* purchased_quantity less the allocated quantities is at least line.qty;
\* and a can_allocate call leaves every batch as it was.
C9_CanAllocate ==
    /\ [](\A b \in DOMAIN heap, line \in OrderLine :
            can_allocate(heap[b], line)
                <=> (/\ heap[b].sku = line.sku
                     /\ heap[b].purchased_quantity - SumQty(heap[b].allocations)
                            >= line.qty))
    /\ [][last'.op = "Batch.can_allocate" =>
            /\ heap' = heap
            /\ \E b \in DOMAIN heap, line \in OrderLine :
                last'.ret = (IF Fits(heap[b], line) THEN "True" ELSE "False")]_vars

\* can_allocate has just answered False on a batch that has the sku of a
\* line and holds lines, and True is possible for another line
C9_Witness ==
    /\ last.op = "Batch.can_allocate" /\ last.ret = "False"
    /\ \E b \in DOMAIN heap, l1 \in OrderLine, l2 \in OrderLine :
        /\ heap[b].allocations # {}
        /\ heap[b].sku = l1.sku /\ ~Fits(heap[b], l1)
        /\ heap[b].sku # l2.sku /\ Free(heap[b]) >= l2.qty

\* C10: the Batch ordering '>' is a strict weak order on eta: irreflexive,
\* transitive, with a transitive 'neither is greater'; a dated batch is
\* greater than every batch with no eta, of two dated batches the later is
\* the greater, and of two batches of equal rank neither is greater.
C10_StrictWeakOrder ==
    \A a \in DOMAIN heap, b \in DOMAIN heap, c \in DOMAIN heap :
        LET x == heap[a]
            y == heap[b]
            z == heap[c]
            Unordered(u, v) == ~Batch_gt(u, v) /\ ~Batch_gt(v, u)
        IN /\ ~Batch_gt(x, x)
           /\ (Batch_gt(x, y) /\ Batch_gt(y, z)) => Batch_gt(x, z)
           /\ (Unordered(x, y) /\ Unordered(y, z)) => Unordered(x, z)
           /\ (x.eta # None /\ y.eta = None) => Batch_gt(x, y)
           /\ (x.eta # None /\ y.eta # None /\ x.eta[1] > y.eta[1])
                  => Batch_gt(x, y)
           /\ x.eta = y.eta => Unordered(x, y)
           /\ Batch_gt(x, y) <=> Rank(x) > Rank(y)

\* a comparison has just answered True among three batches of three
\* different ranks
C10_Witness ==
    /\ last.op = "Batch.__gt__" /\ last.ret = "True"
    /\ \E a \in DOMAIN heap, b \in DOMAIN heap, c \in DOMAIN heap :
        /\ heap[a].eta = None
        /\ heap[b].eta # None /\ heap[c].eta # None
        /\ heap[b].eta[1] < heap[c].eta[1]


\* C14 as stated: in every reachable state, for every batch and every line
\* with can_allocate(line) false, the line is not in the batch's allocation
\* set after Batch.allocate(line).
C14_RejectedLineAbsent ==
    \A b \in DOMAIN heap, line \in OrderLine :
        ~can_allocate(heap[b], line) =>
            line \notin Batch_allocate(heap[b], line).batch.allocations

\* C14 amended: in every reachable state, for every batch and every line
\* with can_allocate(line) false that the batch does not hold already, the
\* line is not in the batch's allocation set after Batch.allocate(line).
C14_RejectedNewLineAbsent ==
    \A b \in DOMAIN heap, line \in OrderLine :
        (~Fits(heap[b], line) /\ line \notin heap[b].allocations) =>
            line \notin Batch_allocate(heap[b], line).batch.allocations

\* after a Batch.allocate, a batch of some sku holds a line and has no room
\* for another line of that sku, which it does not hold
C14_Witness ==
    /\ last.op = "Batch.allocate"
    /\ \E b \in DOMAIN heap, line \in OrderLine :
        /\ heap[b].allocations # {}
        /\ line.sku = heap[b].sku
        /\ line \notin heap[b].allocations
        /\ ~Fits(heap[b], line)


\* C15: in every reachable state, for every line and every list of batches,
\* a successful allocate(line, batches) selects, among the batches of the
\* list that the line fits and that have the least rank, the one that comes
\* first in the caller's list: it returns that batch's reference, the line
\* is in that batch and no other batch changes.
C15_TiesInInputOrder ==
    \A line \in OrderLine, batches \in BatchLists :
        LET r == allocate(line, batches, heap)
            fitting == {i \in 1..Len(batches) : Fits(heap[batches[i]], line)}
            best == {i \in fitting : \A j \in fitting :
                        Rank(heap[batches[i]]) <= Rank(heap[batches[j]])}
        IN r.exc = "none" =>
            \E k \in best :
                /\ \A j \in best : k <= j
                /\ r.ret = heap[batches[k]].reference
                /\ r.ret = BatchRefs[batches[k]]
                /\ line \in r.heap[batches[k]].allocations
                /\ \A o \in DOMAIN heap \ {batches[k]} : r.heap[o] = heap[o]

\* the service has just returned the reference of the second batch, which
\* holds one line, while the first batch has the same sku and the same rank,
\* holds nothing and has room for that line: the second batch came first in
\* the caller's list or was alone in it
C15_Witness ==
    /\ last.op = "allocate" /\ last.exc = "none"
    /\ last.ret = BatchRefs[2]
    /\ heap[1].sku = heap[2].sku /\ Rank(heap[1]) = Rank(heap[2])
    /\ heap[1].allocations = {}
    /\ Cardinality(heap[2].allocations) = 1
    /\ \A line \in heap[2].allocations : Fits(heap[1], line)


\* C11: in every reachable state, two batches are equal iff their references
\* match, whatever their sku, quantity, eta and allocation sets; batches
\* with the same reference hash identically; a batch is equal to no
\* OrderLine; and Batch.allocate and Batch.deallocate leave a batch's
\* reference, and so what it is equal to and its hash, as they were.
C11_IdentityEquality ==
    \A a \in DOMAIN heap, b \in DOMAIN heap :
        /\ Batch_eq(heap[a], heap[b]) <=> (heap[a].reference = heap[b].reference)
        /\ heap[a].reference = heap[b].reference
               => Batch_hash(heap[a]) = Batch_hash(heap[b])
        /\ \A line \in OrderLine :
            LET x == Batch_allocate(heap[a], line).batch
                y == Batch_deallocate(heap[a], line).batch
            IN /\ ~Batch_eq(heap[a], line)
               /\ x.reference = heap[a].reference
               /\ y.reference = heap[a].reference
               /\ Batch_eq(x, heap[a]) /\ Batch_eq(y, heap[a])
               /\ Batch_eq(x, heap[b]) <=> (heap[a].reference = heap[b].reference)
               /\ Batch_eq(y, heap[b]) <=> (heap[a].reference = heap[b].reference)
               /\ Batch_hash(x) = Batch_hash(heap[a])
               /\ Batch_hash(y) = Batch_hash(heap[a])

\* a comparison has just answered True and the two batches have the same
\* reference but different skus, quantities, etas and allocation sets
C11_Witness ==
    /\ last.op = "Batch.__eq__" /\ last.ret = "True"
    /\ heap[1].reference = heap[2].reference
    /\ heap[1].sku # heap[2].sku
    /\ heap[1].purchased_quantity # heap[2].purchased_quantity
    /\ heap[1].eta # heap[2].eta
    /\ heap[1].allocations # {} /\ heap[2].allocations # {}


\* C12: two OrderLines are equal iff orderid, sku and qty all match; so in
\* every reachable state adding a line to a batch's allocation set adds an
\* entry unless the set holds a line with the same three fields, and two
\* lines allocated one after the other, each fitting, are both in the
\* set, as two entries iff they differ in some field.
C12_ValueEquality ==
    \A b \in DOMAIN heap, l1 \in OrderLine, l2 \in OrderLine :
        LET s == heap[b].allocations
            same(x, y) == x.orderid = y.orderid /\ x.sku = y.sku /\ x.qty = y.qty
            x1 == Batch_allocate(heap[b], l1).batch
            x2 == Batch_allocate(x1, l2).batch
        IN /\ OrderLine_eq(l1, l2) <=> same(l1, l2)
           /\ Cardinality(SetAdd(s, l1))
                  = Cardinality(s) + (IF \E y \in s : same(y, l1) THEN 0 ELSE 1)
           /\ \A y \in s : \A z \in s : same(y, z) => y = z
           /\ (Fits(heap[b], l1) /\ Fits(x1, l2)) =>
                /\ x2.allocations = s \cup {l1, l2}
                /\ Cardinality(x2.allocations)
                       = Cardinality(s \cup {l1})
                           + (IF same(l1, l2) \/ \E y \in s : same(y, l2)
                              THEN 0 ELSE 1)

\* after a Batch.allocate, a batch holds a line, a second line that differs
\* from it in qty alone and a third that differs from it in orderid alone
C12_Witness ==
    /\ last.op = "Batch.allocate"
    /\ \E b \in DOMAIN heap :
        \E l1 \in heap[b].allocations, l2 \in heap[b].allocations,
           l3 \in heap[b].allocations :
            /\ l1.orderid = l2.orderid /\ l1.sku = l2.sku /\ l1.qty # l2.qty
            /\ l1.orderid # l3.orderid /\ l1.sku = l3.sku /\ l1.qty = l3.qty


\* C13: with two callers allocating distinct lines to one batch, in every
\* reachable state allocated_quantity exceeds purchased_quantity only when
\* the calls were not atomic, both tests passed and one caller's line was
\* added between the other caller's test and its add; when each call is one
\* atomic step allocated_quantity never exceeds purchased_quantity.
C13_OvershootOnlyByRace ==
    \A b \in DOMAIN heap :
        /\ calls.atomic => SumQty(heap[b].allocations) <= heap[b].purchased_quantity
        /\ SumQty(heap[b].allocations) > heap[b].purchased_quantity =>
            /\ ~calls.atomic
            /\ \A c \in Callers :
                /\ calls.caller[c].pc = "done"
                /\ calls.caller[c].ok
                /\ calls.caller[c].line \in heap[b].allocations
            /\ \E c \in Callers : calls.caller[c].raced

\* the interleaving exists: both calls have returned, both tests passed,
\* each line alone fits the batch and the two together exceed it
C13_Witness ==
    /\ ~calls.atomic
    /\ \A c \in Callers : calls.caller[c].pc = "done" /\ calls.caller[c].ok
    /\ \E b \in DOMAIN heap :
        /\ SumQty(heap[b].allocations) > heap[b].purchased_quantity
        /\ \A l \in heap[b].allocations : l.qty <= heap[b].purchased_quantity
        /\ Cardinality(heap[b].allocations) = 2

====
